---- MODULE Spec2Model ----
(***************************************************************************)
(* Model of Assignment4/Assignment4_files/code/quadtree.py.                *)
(*                                                                         *)
(* Two specifications share the module:                                    *)
(*   Spec      - QuadTree.__init__ and the recursion QuadTree.recurse,     *)
(*               executed statement by statement on an explicit call       *)
(*               stack, followed by the query quadrants().                 *)
(*   SpecArith - the static helpers at_least, at_most and level applied to *)
(*               an integer argument.                                      *)
(***************************************************************************)
EXTENDS Integers, Sequences, FiniteSets

VARIABLES
    bbox,       \* the `bbox` argument of QuadTree.__init__
    depth,      \* the `depth` argument, stored unchanged as self.depth
    arity,      \* how many boxes the collaborator's compute_quads() yields
    quads,      \* self.quads : dict depth -> list of boxes
    stack,      \* activation records of recurse(), innermost last
    status,     \* "new" | "building" | "done" | "KeyError"
    splitLog,   \* every call of compute_quads(): the box split, the level
                \* of that box and the number of boxes yielded
    size,       \* argument of a static helper
    op,         \* helper applied: "none" | "at_least" | "at_most" | "level"
    ret         \* what the helper call produced

vars == <<bbox, depth, arity, quads, stack, status, splitLog, size, op, ret>>

treeVars == <<bbox, depth, arity, quads, stack, status, splitLog>>
arithVars == <<size, op, ret>>

(***************************************************************************)
(* Bounds.                                                                 *)
(***************************************************************************)
MaxDepth == 3          \* largest depth argument tried
MinArity == 3          \* fewest boxes a split may yield
MaxArity == 5          \* most boxes a split may yield

RECURSIVE Pow(_, _)
Pow(b, e) == IF e <= 0 THEN 1 ELSE b * Pow(b, e - 1)

(***************************************************************************)
(* Bounding boxes.  Coordinates are fixed-point numbers with Unit           *)
(* subdivisions per whole unit, so that every midpoint taken while         *)
(* building a tree of at most MaxDepth levels is exact.                    *)
(***************************************************************************)
Unit == Pow(2, MaxDepth)

BoundingBox(x0, x1, y0, y1) ==
    [xmin |-> x0 * Unit, xmax |-> x1 * Unit,
     ymin |-> y0 * Unit, ymax |-> y1 * Unit]

\* the box of the docstring example and a square one
Roots == {BoundingBox(2, 9, 1, 7), BoundingBox(0, 4, 0, 4)}

Area(b) == (b.xmax - b.xmin) * (b.ymax - b.ymin)

\* the four equal quadrants of b, in the order the collaborator yields them
FourQuads(b) ==
    LET xm == (b.xmin + b.xmax) \div 2
        ym == (b.ymin + b.ymax) \div 2
    IN  << [xmin |-> b.xmin, xmax |-> xm,     ymin |-> b.ymin, ymax |-> ym],
           [xmin |-> xm,     xmax |-> b.xmax, ymin |-> b.ymin, ymax |-> ym],
           [xmin |-> b.xmin, xmax |-> xm,     ymin |-> ym,     ymax |-> b.ymax],
           [xmin |-> xm,     xmax |-> b.xmax, ymin |-> ym,     ymax |-> b.ymax] >>

\* bbox.compute_quads() of a collaborator that yields n boxes: the first n
\* quadrants, padded with repetitions of the first quadrant beyond four
ComputeQuads(b, n) ==
    [i \in 1..n |-> IF i <= 4 THEN FourQuads(b)[i] ELSE FourQuads(b)[1]]

compute_quads(b) == ComputeQuads(b, arity)

(***************************************************************************)
(* QuadTree.__init__                                                       *)
(***************************************************************************)
\* lines 37-45: self.quads = {}; self.quads[x] = [] for x in range(depth);
\* self.quads[0] = [bbox]
InitQuads(b, d) ==
    [x \in (0..(d - 1)) \cup {0} |-> IF x = 0 THEN <<b>> ELSE <<>>]

\* an activation of recurse(bbox, depth) about to test the base case
Frame(b, d) == [bbox |-> b, depth |-> d, kids |-> <<>>, i |-> 0, pc |-> "base"]

\* __init__ up to and including the call self.recurse(bbox, 1)
Construct ==
    /\ status = "new"
    /\ quads' = InitQuads(bbox, depth)
    /\ stack' = <<Frame(bbox, 1)>>
    /\ status' = "building"
    /\ UNCHANGED <<bbox, depth, arity, splitLog, arithVars>>

(***************************************************************************)
(* QuadTree.recurse                                                        *)
(***************************************************************************)
Top == stack[Len(stack)]
Pop == SubSeq(stack, 1, Len(stack) - 1)

\* the base case taken one level late
MaxDepthReached_late(selfDepth, d) == selfDepth = d + 1

\* line 60: if self.depth == depth
MaxDepthReached(selfDepth, d) == selfDepth = d

\* the list at the current depth overwritten instead of extended
AppendQuad_assign(q, d, quad) == [q EXCEPT ![d] = <<quad>>]

\* the quad inserted at the front of the list
AppendQuad_front(q, d, quad) == [q EXCEPT ![d] = <<quad>> \o @]

\* line 67: self.quads[depth].append(quad)
AppendQuad(q, d, quad) == [q EXCEPT ![d] = Append(@, quad)]

\* the nested call made two levels down
NextDepth_skip(d) == d + 2

\* line 70: the depth passed to the nested call
NextDepth(d) == d + 1

\* the caller resumes, or construction is complete
Return ==
    /\ stack' = Pop
    /\ status' = IF Len(stack) = 1 THEN "done" ELSE "building"

\* lines 60-61: base case, return without splitting
RecurseBase ==
    /\ status = "building"
    /\ Top.pc = "base"
    /\ MaxDepthReached(depth, Top.depth)
    /\ Return
    /\ UNCHANGED <<bbox, depth, arity, quads, splitLog, arithVars>>

\* line 64: bbox.compute_quads() is evaluated once, the loop starts
RecurseSplit ==
    /\ status = "building"
    /\ Top.pc = "base"
    /\ ~MaxDepthReached(depth, Top.depth)
    /\ stack' = [stack EXCEPT ![Len(stack)] =
                    [@ EXCEPT !.kids = compute_quads(Top.bbox),
                              !.i = 1, !.pc = "loop"]]
    /\ splitLog' = Append(splitLog, [box |-> Top.bbox, level |-> Top.depth - 1,
                                     yielded |-> Len(compute_quads(Top.bbox))])
    /\ UNCHANGED <<bbox, depth, arity, quads, status, arithVars>>

\* lines 67-70: append the next quad and recurse into it
RecurseAppend ==
    /\ status = "building"
    /\ Top.pc = "loop"
    /\ Top.i <= Len(Top.kids)
    /\ Top.depth \in DOMAIN quads
    /\ quads' = AppendQuad(quads, Top.depth, Top.kids[Top.i])
    /\ stack' = Append([stack EXCEPT ![Len(stack)].i = @ + 1],
                       Frame(Top.kids[Top.i], NextDepth(Top.depth)))
    /\ UNCHANGED <<bbox, depth, arity, status, splitLog, arithVars>>

\* line 67: self.quads[depth] with a missing key raises KeyError, which
\* nothing catches: every activation and __init__ itself are abandoned
RecurseKeyError ==
    /\ status = "building"
    /\ Top.pc = "loop"
    /\ Top.i <= Len(Top.kids)
    /\ Top.depth \notin DOMAIN quads
    /\ stack' = <<>>
    /\ status' = "KeyError"
    /\ UNCHANGED <<bbox, depth, arity, quads, splitLog, arithVars>>

\* line 64: the loop is exhausted, recurse() returns
RecurseReturn ==
    /\ status = "building"
    /\ Top.pc = "loop"
    /\ Top.i > Len(Top.kids)
    /\ Return
    /\ UNCHANGED <<bbox, depth, arity, quads, splitLog, arithVars>>

\* lines 117-121: quadrants() returns the quads member
quadrants == quads

NoRet == [kind |-> "none"]


(***************************************************************************)
(* Integers of arbitrary size.  Python integers are unbounded, and the     *)
(* helpers misbehave only beyond 2^48, so an integer is a sign and a       *)
(* magnitude written as its binary digits, most significant first, with no *)
(* leading zero (<<>> is 0).                                               *)
(***************************************************************************)
MaxSmall == 1100       \* sizes 1..MaxSmall are all tried
MaxExp == 31           \* sizes 4^k + d are tried for k up to MaxExp
Offsets == -2..2       \* the offsets d

RECURSIVE ToBits(_)
ToBits(m) == IF m <= 0 THEN <<>> ELSE Append(ToBits(m \div 2), m % 2)

Zeros(n) == [i \in 1..n |-> 0]
Ones(n) == [i \in 1..n |-> 1]

PyInt(m) == [neg |-> m < 0, mag |-> ToBits(IF m < 0 THEN -m ELSE m)]

Less(a, b) ==
    \/ Len(a) < Len(b)
    \/ /\ Len(a) = Len(b)
       /\ \E i \in 1..Len(a) : a[i] < b[i] /\ \A j \in 1..(i - 1) : a[j] = b[j]

Leq(a, b) == a = b \/ Less(a, b)

\* 4 ** e for e >= 0
Pow4(e) == <<1>> \o Zeros(2 * e)

IsPow4(a) ==
    /\ Len(a) % 2 = 1
    /\ a[1] = 1
    /\ \A i \in 2..Len(a) : a[i] = 0

\* the positive integer 4^k + d, for k >= 1 and -3 <= d <= 3
NearPow4(k, d) ==
    IF k <= 14 THEN ToBits(Pow(4, k) + d)
    ELSE IF d = 0 THEN Pow4(k)
    ELSE IF d > 0 THEN <<1>> \o Zeros(2 * k - 2) \o <<d \div 2, d % 2>>
    ELSE Ones(2 * k - 2) \o <<(4 + d) \div 2, (4 + d) % 2>>

Sizes ==
    {PyInt(m) : m \in -3..MaxSmall}
        \cup {[neg |-> FALSE, mag |-> NearPow4(k, d)] : k \in 1..MaxExp, d \in Offsets}

(***************************************************************************)
(* math.log(size, 4): the integer is converted to an IEEE-754 binary64     *)
(* number, and log(x) / log(4) is evaluated in binary64.                   *)
(***************************************************************************)
MantissaBits == 53

RECURSIVE Inc(_)
Inc(a) ==
    IF a = <<>> THEN <<1>>
    ELSE IF a[Len(a)] = 0 THEN [a EXCEPT ![Len(a)] = 1]
    ELSE Append(Inc(SubSeq(a, 1, Len(a) - 1)), 0)

\* int -> double: the nearest number with MantissaBits significant bits,
\* ties to the even mantissa
ToDouble(a) ==
    IF Len(a) <= MantissaBits THEN a
    ELSE LET head == SubSeq(a, 1, MantissaBits)
             tail == SubSeq(a, MantissaBits + 1, Len(a))
             up == /\ tail[1] = 1
                   /\ \/ \E j \in 2..Len(tail) : tail[j] = 1
                      \/ head[MantissaBits] = 1
         IN  (IF up THEN Inc(head) ELSE head) \o Zeros(Len(tail))

\* value of the last two binary digits
Low2(a) == 2 * a[Len(a) - 1] + a[Len(a)]

\* x = 4^k + d with 1 <= d <= 3, where k = (Len(x) - 1) \div 2
JustAbove(x) ==
    /\ Len(x) >= 3
    /\ Len(x) % 2 = 1
    /\ x[1] = 1
    /\ \A i \in 2..(Len(x) - 2) : x[i] = 0
    /\ Low2(x) # 0

\* x = 4^k - d with 1 <= d <= 3, where k = Len(x) \div 2
JustBelow(x) ==
    /\ Len(x) >= 4
    /\ Len(x) % 2 = 0
    /\ \A i \in 1..(Len(x) - 2) : x[i] = 1
    /\ Low2(x) # 0

\* the exponents k <= 46 for which binary64 log(4.0**k) / log(4.0) is the
\* double next above k instead of k
QuotientAbove == {29, 31, 39}

\* binary64 log(x) / log(4.0) is exactly k for x = 4^k + d, although x is not
\* 4^k: the quotient differs from k by less than the spacing of doubles at k
Absorbed(k, d) ==
    \/ k = 24 /\ d = -1
    \/ k >= 25 /\ d \in -3..3

\* the double log(x) / log(4.0) for a double x >= 1 holding an integer,
\* given by its floor and by whether it is a whole number
Log4(x) ==
    LET k == (Len(x) - 1) \div 2
    IN  IF Len(x) >= 1 /\ IsPow4(x)
            THEN [fl |-> k, whole |-> k \notin QuotientAbove]
        ELSE IF JustAbove(x) /\ Absorbed(k, Low2(x))
            THEN [fl |-> k, whole |-> TRUE]
        ELSE IF JustBelow(x) /\ Absorbed(k + 1, Low2(x) - 4)
            THEN [fl |-> k + 1, whole |-> TRUE]
        ELSE [fl |-> k, whole |-> FALSE]

\* only negative arguments rejected
LogDomainError_negative(n) == n.neg

\* math.log raises ValueError("math domain error") for an argument <= 0
LogDomainError(n) == n.neg \/ n.mag = <<>>

\* math.log(size, 4)
log(n) == Log4(ToDouble(n.mag))

\* int(math.ceil(y)), int(math.floor(y))
ceil(y) == IF y.whole THEN y.fl ELSE y.fl + 1
floor(y) == y.fl

ValueError == [kind |-> "ValueError"]
Value(v) == [kind |-> "int", val |-> v]

\* line 85: 4 ** int(math.ceil(math.log(size, 4)))
at_least(n) ==
    IF LogDomainError(n) THEN ValueError ELSE Value(Pow4(ceil(log(n))))

\* line 100: 4 ** int(math.floor(math.log(size, 4)))
at_most(n) ==
    IF LogDomainError(n) THEN ValueError ELSE Value(Pow4(floor(log(n))))

\* line 115: int(math.ceil(math.log(size, 4)))
level(n) ==
    IF LogDomainError(n) THEN ValueError ELSE Value(ceil(log(n)))

AtLeast ==
    /\ op = "none"
    /\ op' = "at_least"
    /\ ret' = at_least(size)
    /\ UNCHANGED <<size, treeVars>>

AtMost ==
    /\ op = "none"
    /\ op' = "at_most"
    /\ ret' = at_most(size)
    /\ UNCHANGED <<size, treeVars>>

Level ==
    /\ op = "none"
    /\ op' = "level"
    /\ ret' = level(size)
    /\ UNCHANGED <<size, treeVars>>

Init ==
    /\ bbox \in Roots
    /\ depth \in -1..MaxDepth
    /\ arity \in MinArity..MaxArity
    /\ quads = <<>>
    /\ stack = <<>>
    /\ status = "new"
    /\ splitLog = <<>>
    /\ size = PyInt(1)
    /\ op = "none"
    /\ ret = NoRet

Next ==
    \/ Construct
    \/ RecurseBase
    \/ RecurseSplit
    \/ RecurseAppend
    \/ RecurseKeyError
    \/ RecurseReturn

Spec == Init /\ [][Next]_vars

InitArith ==
    /\ size \in Sizes
    /\ op = "none"
    /\ ret = NoRet
    /\ bbox = BoundingBox(2, 9, 1, 7)
    /\ depth = 1
    /\ arity = 4
    /\ quads = <<>>
    /\ stack = <<>>
    /\ status = "new"
    /\ splitLog = <<>>

NextArith ==
    \/ AtLeast
    \/ AtMost
    \/ Level

SpecArith == InitArith /\ [][NextArith]_vars

(***************************************************************************)
(* Properties of the construction (checked under Spec).                    *)
(***************************************************************************)
Completed == status = "done"

\* every split performed so far yielded exactly four sub-boxes
SplitsWellFormed == \A i \in 1..Len(splitLog) : splitLog[i].yielded = 4

RECURSIVE SumArea(_)
SumArea(boxes) ==
    IF boxes = <<>> THEN 0
    ELSE Area(boxes[1]) + SumArea(SubSeq(boxes, 2, Len(boxes)))

\* number of positions of list holding x
Occurrences(list, x) == Cardinality({i \in 1..Len(list) : list[i] = x})

\* number of compute_quads() calls made on box b as a box of level d
Splits(b, d) ==
    Cardinality({i \in 1..Len(splitLog) :
                    splitLog[i].box = b /\ splitLog[i].level = d})

\* C1: after QuadTree(root, depth) completes with depth >= 1 and four-way
\* splits, quadrants() has exactly the keys 0..depth-1, level 0 holds exactly
\* the root box, and every level d with 0 < d < depth holds exactly 4^d boxes.
C1_LevelSizes ==
    (Completed /\ depth >= 1 /\ SplitsWellFormed) =>
        /\ DOMAIN quadrants = 0..(depth - 1)
        /\ quadrants[0] = <<bbox>>
        /\ \A d \in 1..(depth - 1) : Len(quadrants[d]) = Pow(4, d)

C1_Witness ==
    /\ Completed
    /\ SplitsWellFormed
    /\ depth >= 3
    /\ Len(quadrants[2]) = 16

\* C2: after construction with depth >= 1 and four-way, area-preserving
\* splits, the areas of the boxes of every level 0..depth-1 sum to the area
\* of the root box.
C2_AreaPreserved ==
    (Completed /\ depth >= 1 /\ SplitsWellFormed) =>
        \A d \in DOMAIN quadrants : SumArea(quadrants[d]) = Area(bbox)

C2_Witness ==
    /\ Completed
    /\ SplitsWellFormed
    /\ depth >= 2
    /\ Area(bbox) > 0
    /\ SumArea(quadrants[depth - 1]) = Area(bbox)
    /\ Len(quadrants[depth - 1]) > 1

\* C3: after construction, the box at (0-based) index i of level d, for
\* 1 <= d < depth, is the (i mod 4)-th sub-box, in split order, of the box at
\* index (i div 4) of level d-1.
C3_ParentGroupedOrder ==
    (Completed /\ depth >= 1 /\ SplitsWellFormed) =>
        \A d \in 1..(depth - 1) :
            \A i \in 0..(Len(quadrants[d]) - 1) :
                /\ (i \div 4) + 1 \in DOMAIN quadrants[d - 1]
                /\ quadrants[d][i + 1]
                     = FourQuads(quadrants[d - 1][(i \div 4) + 1])[(i % 4) + 1]

C3_Witness ==
    /\ Completed
    /\ SplitsWellFormed
    /\ depth >= 3
    /\ quadrants[2][7] = FourQuads(quadrants[1][2])[3]
    /\ quadrants[2][7] # quadrants[2][3]

\* C4: construction with depth < 1 is rejected before any recursion step or
\* split of the root box, and never yields a tree.
C4_RejectedBeforeRecursion ==
    depth < 1 => (splitLog = <<>> /\ ~Completed)

\* C5: if any split during construction yields a number of sub-boxes other
\* than four, construction never completes.
C5_MalformedSplitFatal ==
    Completed => SplitsWellFormed

\* C10: during construction with depth >= 1 no box of level depth-1 or deeper
\* is split and no box is split more often than it occurs in its level; on
\* completion every box of levels 0..depth-2 has been split exactly once, and
\* with depth = 1 no split was made and only level 0 is populated.
C10_SplitOncePerInnerBox ==
    (status \in {"building", "done"} /\ depth >= 1) =>
        /\ \A i \in 1..Len(splitLog) :
              /\ splitLog[i].level \in 0..(depth - 2)
              /\ Splits(splitLog[i].box, splitLog[i].level)
                   <= Occurrences(quads[splitLog[i].level], splitLog[i].box)
        /\ Completed =>
              /\ \A d \in 0..(depth - 2) :
                    \A i \in 1..Len(quads[d]) :
                       /\ Splits(quads[d][i], d) = Occurrences(quads[d], quads[d][i])
                       /\ SplitsWellFormed => Splits(quads[d][i], d) = 1
              /\ depth = 1 =>
                    /\ splitLog = <<>>
                    /\ DOMAIN quads = {0}
                    /\ Len(quads[0]) = 1

C10_Witness ==
    /\ Completed
    /\ depth >= 3
    /\ Len(splitLog) = 1 + arity
    /\ \E i \in 1..Len(splitLog) : splitLog[i].level = depth - 2

(***************************************************************************)
(* Properties of the static helpers (checked under SpecArith).             *)
(***************************************************************************)
Positive(n) == ~n.neg /\ n.mag # <<>>

\* C6: for every integer n >= 1, at_least(n) is a power of 4 that is >= n and
\* no smaller power of 4 is >= n; at_least(16) = 16 and at_least(900) = 1024.
C6_AtLeastSmallestPower ==
    (op = "at_least" /\ Positive(size)) =>
        /\ ret.kind = "int"
        /\ IsPow4(ret.val)
        /\ Leq(size.mag, ret.val)
        /\ \A e \in 0..(MaxExp + 1) :
              Leq(size.mag, Pow4(e)) => Leq(ret.val, Pow4(e))
        /\ size = PyInt(16) => ret.val = ToBits(16)
        /\ size = PyInt(900) => ret.val = ToBits(1024)

\* C7: for every integer n >= 1, at_most(n) is a power of 4 that is <= n and
\* no larger power of 4 is <= n; at_most(16) = 16 and at_most(900) = 256.
C7_AtMostLargestPower ==
    (op = "at_most" /\ Positive(size)) =>
        /\ ret.kind = "int"
        /\ IsPow4(ret.val)
        /\ Leq(ret.val, size.mag)
        /\ \A e \in 0..(MaxExp + 1) :
              Leq(Pow4(e), size.mag) => Leq(Pow4(e), ret.val)
        /\ size = PyInt(16) => ret.val = ToBits(16)
        /\ size = PyInt(900) => ret.val = ToBits(256)

\* C8: for every integer n >= 1, level(n) is the least L >= 0 with 4^L >= n:
\* 4^level(n) >= n and, for n > 1, 4^(level(n)-1) < n; level(1) = 0,
\* level(16) = 2 and level(17) = 3.
C8_LevelMinimal ==
    (op = "level" /\ Positive(size)) =>
        /\ ret.kind = "int"
        /\ ret.val >= 0
        /\ Leq(size.mag, Pow4(ret.val))
        /\ size # PyInt(1) => Less(Pow4(ret.val - 1), size.mag)
        /\ size = PyInt(1) => ret.val = 0
        /\ size = PyInt(16) => ret.val = 2
        /\ size = PyInt(17) => ret.val = 3

\* C9: at_least(n), at_most(n) and level(n) with n <= 0 end in an explicit
\* error and return no value.
C9_NonPositiveRaises ==
    (op # "none" /\ ~Positive(size)) => ret = ValueError

C9_Witness ==
    /\ op = "at_most"
    /\ size = PyInt(0)
    /\ ret.kind = "ValueError"

====
